---- MODULE Spec2Model ----
(***************************************************************************)
(* The session-relay broker of src/app.py: the SessionManager registry,    *)
(* the per-connection websocket_handler and the cleanup_loop reaper.       *)
(*                                                                         *)
(* Every lock-guarded SessionManager call is one atomic step, and steps of *)
(* different handlers and of the reaper interleave freely.  A stretch of   *)
(* handler code that touches only the handler's own locals and its own     *)
(* channel is joined to the registry call that follows it (no other task   *)
(* can observe the state in between).                                      *)
(***************************************************************************)
EXTENDS Integers, Sequences, FiniteSets, TLC

\* ------------------------------------------------------------------ bounds
\* connections (handler invocations) 1..NumConns
NumConns == 3
\* messages the remote end of a connection sends, and messages the relay
\* loops receive in total (two more under SpecDuplex)
MaxMsgs == 2
\* clock advances
MaxTicks == 1
\* seconds per clock advance
TickStep == 301

\* ------------------------------------------------------- program constants
CLEANUP_INTERVAL == 60
INACTIVE_TIMEOUT == 300

\* Python's None where a connection reference is expected (connections are 1..NumConns)
None == 0
\* Python's None where a string is expected (the handler's locals before the handshake)
NoneStr == "<None>"

Conns == 1..NumConns

\* the handler's local `message` while it holds no message (a message is a
\* pair: its sender and its number in what that sender sends)
NoMessage == <<None, None>>

\* ------------------------------------------------------------ strings
\* A raw string of a handshake is a sequence of chunks; the chunk " " is
\* white space, every other chunk is text without white space.
WS == " "

RECURSIVE lstrip(_)
lstrip(s) == IF s # <<>> /\ Head(s) = WS THEN lstrip(Tail(s)) ELSE s

RECURSIVE rstrip(_)
rstrip(s) == IF s # <<>> /\ s[Len(s)] = WS THEN rstrip(SubSeq(s, 1, Len(s) - 1)) ELSE s

RECURSIVE join(_)
join(s) == IF s = <<>> THEN "" ELSE Head(s) \o join(Tail(s))

\* str.strip(): the string without its leading and trailing white space
strip(s) == join(rstrip(lstrip(s)))

\* f'{role}_ws'
ws_key(r) == r \o "_ws"

\* Python truthiness of a str-or-None / of a connection-or-None
truthy(x) == x # NoneStr /\ x # ""

\* ------------------------------------------------------------ handshakes
\* What ws.receive(timeout=10) hands the handler:
\*   NoData            None (time-out, or closed before the handshake)
\*   [kind: "text"]    text json.loads rejects
\*   [kind: "list"]    JSON that is no object (no .get)
\*   [kind: "dict"]    a JSON object; a field is absent, a string, or a number
Str(s) == [t |-> "str", v |-> s]
Num == [t |-> "num"]
Absent == [t |-> "absent"]

RawPasswords == { <<>>, <<WS>>, <<"a">>, <<WS, "a">>, <<"A">> }
RawRoles == { <<>>, <<"client">>, <<"helper">>, <<"helper", WS>>, <<"admin">> }

PasswordFields == {Str(s) : s \in RawPasswords} \cup {Absent, Num}
RoleFields == {Str(s) : s \in RawRoles} \cup {Absent, Num}

NoData == [kind |-> "none"]
Handshakes ==
    {NoData, [kind |-> "text"], [kind |-> "list"]}
    \cup {[kind |-> "dict", password |-> p, role |-> r] : p \in PasswordFields, r \in RoleFields}

\* handshake.get(k, '') of a dict payload
get(h, k) == IF h[k] = Absent THEN Str(<<>>) ELSE h[k]

\* ------------------------------------------------------------ state
VARIABLES
    sessions,      \* SessionManager.sessions: password -> session dict
    now,           \* time.time()
    quota,         \* messages the remote ends may still get through to the relay loops
    pc,            \* per connection: "start" (before line 580), "recv" (599),
                   \*   "peer" (606), "send" (609), "done" (returned); where the
                   \*   lock is modelled also "add" (593), "touch" (604), "unbind" (622)
    password,      \* per connection: the handler's local `password`
    role,          \* per connection: the handler's local `role`
    message,       \* per connection: the handler's local `message`
    peer_ws,       \* per connection: the handler's local `peer_ws`
    pending,       \* per connection: what its remote end still has to send
    inbox,         \* per connection: what was sent to its channel, in order
    chan,          \* per connection: "open", "peer_closed", "closed"
    verdict,       \* per connection (history): "none", or what its handshake was
                   \*   by the handshake contract: "valid" or "bad"
    ended,         \* per connection (history): "", or why its relay loop ended:
                   \*   "closed" (end of its channel), "send_failed"
    cpc,           \* cleanup_loop: "scan" (before line 90) or "remove" (before line 100)
    current_time,  \* cleanup_inactive_sessions: local current_time (of the latest scan)
    to_remove,     \* cleanup_inactive_sessions: local to_remove (of the latest scan)
    wake,          \* cleanup_loop: when eventlet.sleep returns
    worker,        \* per connection: the gunicorn worker process that accepted it
    others,        \* the worker processes other than the first, each with its own
                   \*   session_manager (sessions) and cleanup_loop (cpc, current_time,
                   \*   to_remove, wake)
    lock,          \* session_manager.lock: None, or the task that holds it
    handshake_data \* per connection (history): what ws.receive(timeout=10) handed
                   \*   the handler, where the specification records it

vars == <<sessions, now, quota, pc, password, role, message, peer_ws, pending,
          inbox, chan, verdict, ended, cpc, current_time, to_remove, wake,
          worker, others, lock, handshake_data>>

handler_vars == <<pc, password, role, message, peer_ws>>
channel_vars == <<pending, inbox, chan>>
history_vars == <<verdict, ended>>
cleanup_vars == <<cpc, current_time, to_remove, wake>>
env_vars == <<now, quota>>
\* what no step of Next changes
fixed_vars == <<worker, lock, handshake_data>>

\* ------------------------------------------------------------ SessionManager
\* d[k] = v on a dict
setitem(d, k, v) == [j \in DOMAIN d \cup {k} |-> IF j = k THEN v ELSE d[j]]

\* d.get(k): None when the key is absent
dict_get(d, k) == IF k \in DOMAIN d THEN d[k] ELSE None

\* del d[k]
delitem(d, k) == [j \in DOMAIN d \ {k} |-> d[j]]

new_session(t) == [client_ws |-> None, helper_ws |-> None, last_activity |-> t, active |-> TRUE]

create_session(S, p, t) ==
    IF p \notin DOMAIN S THEN setitem(S, p, new_session(t)) ELSE S

\* (mutant of add_connection: an occupied slot keeps its occupant)
add_connection_keep(S, p, r, w, t) ==
    LET S1 == IF p \in DOMAIN S THEN S ELSE setitem(S, p, new_session(t))
        s1 == IF dict_get(S1[p], ws_key(r)) = None THEN setitem(S1[p], ws_key(r), w) ELSE S1[p]
    IN  setitem(S1, p, setitem(s1, "last_activity", t))

add_connection(S, p, r, w, t) ==
    LET S1 == IF p \notin DOMAIN S THEN create_session(S, p, t) ELSE S
        s1 == setitem(S1[p], ws_key(r), w)
        s2 == setitem(s1, "last_activity", t)
    IN  setitem(S1, p, s2)

\* (mutant of remove_connection: the emptied session is kept)
remove_connection_keep(S, p, r, t) ==
    IF p \in DOMAIN S
    THEN setitem(S, p, setitem(setitem(S[p], ws_key(r), None), "last_activity", t))
    ELSE S

remove_connection(S, p, r, t) ==
    IF p \in DOMAIN S
    THEN LET s1 == setitem(S[p], ws_key(r), None)
             s2 == setitem(s1, "last_activity", t)
         IN  IF s2.client_ws = None /\ s2.helper_ws = None
             THEN delitem(S, p)
             ELSE setitem(S, p, s2)
    ELSE S

\* (mutant of peer_role: the caller's own role)
peer_role_same(r) == r

peer_role(r) == IF r = "client" THEN "helper" ELSE "client"

\* (mutant of get_peer_ws: the caller's own slot)
get_peer_ws_own(S, p, r) ==
    IF p \in DOMAIN S THEN dict_get(S[p], ws_key(r)) ELSE None

get_peer_ws(S, p, r) ==
    IF p \in DOMAIN S THEN dict_get(S[p], ws_key(peer_role(r))) ELSE None

\* (mutant of update_activity: a token that is not there is entered)
update_activity_create(S, p, t) ==
    IF p \in DOMAIN S THEN setitem(S, p, setitem(S[p], "last_activity", t))
    ELSE setitem(S, p, new_session(t))

update_activity(S, p, t) ==
    IF p \in DOMAIN S THEN setitem(S, p, setitem(S[p], "last_activity", t)) ELSE S

\* (mutant of scan_inactive: sessions that still hold a connection are spared)
scan_inactive_unoccupied(S, ct) ==
    {p \in DOMAIN S : /\ ct - S[p].last_activity > INACTIVE_TIMEOUT
                      /\ S[p].client_ws = None /\ S[p].helper_ws = None}

\* the scan of cleanup_inactive_sessions (first critical section)
scan_inactive(S, ct) == {p \in DOMAIN S : ct - S[p].last_activity > INACTIVE_TIMEOUT}

\* the removal of cleanup_inactive_sessions (second critical section)
remove_inactive(S, rm) == [p \in DOMAIN S \ rm |-> S[p]]

\* ------------------------------------------------------------ handshake
\* (mutant of parse_handshake: the role is not checked against the two roles)
parse_handshake_any_role(h) ==
    IF h.kind = "none" THEN [exit |-> "return", password |-> NoneStr, role |-> NoneStr]
    ELSE IF h.kind \in {"text", "list"}
    THEN [exit |-> "raise", password |-> NoneStr, role |-> NoneStr]
    ELSE LET pf == get(h, "password")
             rf == get(h, "role")
         IN  IF pf = Num
             THEN [exit |-> "raise", password |-> NoneStr, role |-> NoneStr]
             ELSE IF rf = Num
             THEN [exit |-> "raise", password |-> strip(pf.v), role |-> NoneStr]
             ELSE LET pw == strip(pf.v)
                      rl == strip(rf.v)
                  IN  IF ~truthy(pw) \/ ~truthy(rl)
                      THEN [exit |-> "return", password |-> pw, role |-> rl]
                      ELSE [exit |-> "bind", password |-> pw, role |-> rl]

\* The handler's locals after lines 580-590 and how it leaves them:
\* "bind" (goes on to add_connection), "return" or "raise".
parse_handshake(h) ==
    IF h.kind = "none" THEN [exit |-> "return", password |-> NoneStr, role |-> NoneStr]
    ELSE IF h.kind \in {"text", "list"}
    THEN [exit |-> "raise", password |-> NoneStr, role |-> NoneStr]
    ELSE LET pf == get(h, "password")
             rf == get(h, "role")
         IN  IF pf = Num
             THEN [exit |-> "raise", password |-> NoneStr, role |-> NoneStr]
             ELSE IF rf = Num
             THEN [exit |-> "raise", password |-> strip(pf.v), role |-> NoneStr]
             ELSE LET pw == strip(pf.v)
                      rl == strip(rf.v)
                  IN  IF ~truthy(pw) \/ ~truthy(rl) \/ rl \notin {"client", "helper"}
                      THEN [exit |-> "return", password |-> pw, role |-> rl]
                      ELSE [exit |-> "bind", password |-> pw, role |-> rl]

\* What a handshake is, by the handshake contract (not by the handler's code):
\* nothing arrived; not the expected structure; a field absent or blank;
\* a role that is neither "client" nor "helper"; or valid.
IsBlank(s) == \A i \in DOMAIN s : s[i] = WS
TrimmedTo(s, word) == \E i \in DOMAIN s : s[i] = word /\ \A j \in DOMAIN s \ {i} : s[j] = WS
FieldMissing(f) == f = Absent \/ (f.t = "str" /\ IsBlank(f.v))
Classify(h) ==
    IF h.kind = "none" THEN "timeout"
    ELSE IF h.kind # "dict" \/ h.password = Num \/ h.role = Num THEN "malformed"
    ELSE IF FieldMissing(h.password) \/ FieldMissing(h.role) THEN "missing"
    ELSE IF ~(TrimmedTo(h.role.v, "client") \/ TrimmedTo(h.role.v, "helper")) THEN "unknown_role"
    ELSE "valid"
BadClasses == {"timeout", "malformed", "missing", "unknown_role"}
Verdict(h) == IF Classify(h) \in BadClasses THEN "bad" ELSE "valid"

\* the handshakes that can arrive: what the handler makes of each, and what it is
Arrivals == {[r |-> parse_handshake(h), verdict |-> Verdict(h)] : h \in Handshakes}

\* ------------------------------------------------------------ worker processes
\* gunicorn forks this many worker processes; each has its own copy of the
\* module globals (session_manager, the cleanup greenlet)
workers == 2

\* a worker process as the module leaves it once loaded
new_process == [sessions |-> [p \in {} |-> None], cpc |-> "scan", current_time |-> 0,
                to_remove |-> {}, wake |-> CLEANUP_INTERVAL]

\* session_manager.sessions as the handler of connection c sees it: the
\* global of the process that accepted c
session_manager(c) == IF worker[c] = 1 THEN sessions ELSE others[worker[c]].sessions

\* the handler of c leaves S in the session_manager.sessions of its process
session_manager_set(c, S) ==
    IF worker[c] = 1
    THEN sessions' = S /\ others' = others
    ELSE sessions' = sessions /\ others' = [others EXCEPT ![worker[c]].sessions = S]

\* the handler has not read its handshake, or the run does not record it
Unread == [kind |-> "unread"]

\* ------------------------------------------------------------ initial state
\* the messages the remote end of connection c sends, in the order it sends them
stream(c) == [k \in 1..MaxMsgs |-> <<c, k>>]

\* The state once the module is loaded: an empty registry, no handler has read
\* its handshake yet, and the reaper (spawned at line 121) has finished its
\* first sweep, of the empty registry, and sleeps.
Init ==
    /\ sessions = [p \in {} |-> None]
    /\ now = 0
    /\ quota = MaxMsgs
    /\ pc = [c \in Conns |-> "start"]
    /\ password = [c \in Conns |-> NoneStr]
    /\ role = [c \in Conns |-> NoneStr]
    /\ message = [c \in Conns |-> NoMessage]
    /\ peer_ws = [c \in Conns |-> None]
    /\ pending = [c \in Conns |-> stream(c)]
    /\ inbox = [c \in Conns |-> <<>>]
    /\ chan = [c \in Conns |-> "open"]
    /\ verdict = [c \in Conns |-> "none"]
    /\ ended = [c \in Conns |-> ""]
    /\ cpc = "scan"
    /\ current_time = 0
    /\ to_remove = {}
    /\ wake = CLEANUP_INTERVAL
    /\ worker = [c \in Conns |-> 1]
    /\ others = [w \in 2..workers |-> new_process]
    /\ lock = None
    /\ handshake_data = [c \in Conns |-> Unread]

\* ------------------------------------------------------------ websocket_handler
\* (mutant of finally_registry: the handler ends without its unbind)
finally_registry_skip(S, p, r, t) == S

\* the registry after the handler's finally block, lines 619-623
finally_registry(S, p, r, t) ==
    IF truthy(p) /\ truthy(r) THEN remove_connection(S, p, r, t) ELSE S

\* The handler of c returns through its finally block; the server then closes
\* the channel.
Teardown(c) ==
    /\ session_manager_set(c, finally_registry(session_manager(c), password[c], role[c], now))
    /\ pc' = [pc EXCEPT ![c] = "done"]
    /\ chan' = [chan EXCEPT ![c] = "closed"]
    /\ message' = [message EXCEPT ![c] = NoMessage]
    /\ peer_ws' = [peer_ws EXCEPT ![c] = None]
    /\ UNCHANGED <<password, role>>

\* Connections are numbered in the order their handshakes are read.
NextToConnect(c) == pc[c] = "start" /\ (IF c = 1 THEN TRUE ELSE pc[c - 1] # "start")

\* lines 580-593: a valid handshake, and add_connection
Bind(c) ==
    /\ NextToConnect(c)
    /\ \E a \in Arrivals :
         /\ a.r.exit = "bind"
         /\ password' = [password EXCEPT ![c] = a.r.password]
         /\ role' = [role EXCEPT ![c] = a.r.role]
         /\ session_manager_set(c, add_connection(session_manager(c), a.r.password, a.r.role, c, now))
         /\ verdict' = [verdict EXCEPT ![c] = a.verdict]
    /\ pc' = [pc EXCEPT ![c] = "recv"]
    /\ UNCHANGED <<message, peer_ws, channel_vars, ended, cleanup_vars, env_vars, fixed_vars>>

\* lines 580-590, 614-623: no handshake or a handshake that is refused; the
\* handler leaves through its finally block with the locals it has set so far
Reject(c) ==
    /\ NextToConnect(c)
    /\ \E a \in Arrivals :
         /\ a.r.exit # "bind"
         /\ session_manager_set(c, finally_registry(session_manager(c), a.r.password, a.r.role, now))
         /\ verdict' = [verdict EXCEPT ![c] = a.verdict]
    /\ pc' = [pc EXCEPT ![c] = "done"]
    /\ chan' = [chan EXCEPT ![c] = "closed"]
    /\ UNCHANGED <<password, role, message, peer_ws, pending, inbox, ended, cleanup_vars, env_vars, fixed_vars>>

\* the message ws.receive() returns: the oldest one not yet received
next_message(q) == Head(q)

\* lines 599-604: ws.receive() returns a message; update_activity
Receive(c) ==
    /\ pc[c] = "recv"
    /\ chan[c] = "open"
    /\ pending[c] # <<>>
    /\ quota > 0
    /\ quota' = quota - 1
    /\ message' = [message EXCEPT ![c] = next_message(pending[c])]
    /\ pending' = [pending EXCEPT ![c] = Tail(pending[c])]
    /\ session_manager_set(c, update_activity(session_manager(c), password[c], now))
    /\ pc' = [pc EXCEPT ![c] = "peer"]
    /\ UNCHANGED <<password, role, peer_ws, inbox, chan, history_vars, cleanup_vars, now, fixed_vars>>

\* lines 599-602, 614-623: ws.receive() reports the end of the channel
Disconnect(c) ==
    /\ pc[c] = "recv"
    /\ chan[c] = "peer_closed"
    /\ Teardown(c)
    /\ ended' = [ended EXCEPT ![c] = "closed"]
    /\ UNCHANGED <<pending, inbox, verdict, cleanup_vars, env_vars, fixed_vars>>

\* where the loop goes after `peer_ws = get_peer_ws(...)`: `if peer_ws:`
after_lookup(w) == IF w # None THEN "send" ELSE "recv"

\* lines 606-607
GetPeerWs(c) ==
    LET w == get_peer_ws(session_manager(c), password[c], role[c])
    IN  /\ pc[c] = "peer"
        /\ peer_ws' = [peer_ws EXCEPT ![c] = w]
        /\ pc' = [pc EXCEPT ![c] = after_lookup(w)]
        /\ message' = [message EXCEPT ![c] = IF after_lookup(w) = "send" THEN @ ELSE NoMessage]
        /\ UNCHANGED <<sessions, others, password, role, channel_vars, history_vars, cleanup_vars, env_vars, fixed_vars>>

\* (mutant of deliver: the newest message overtakes the ones before it)
deliver_front(box, w, m) == [box EXCEPT ![w] = <<m>> \o @]

\* ws.send(m) on channel w: what the channel has been sent, after a send that succeeds
deliver(box, w, m) == [box EXCEPT ![w] = Append(@, m)]

\* ws.send raises when the channel is closed
send_ok(w) == chan[w] = "open"

\* (mutant of after_send: a failed send is ignored)
after_send_continue(ok) == "recv"

\* where the loop goes after peer_ws.send: the next receive ("recv"), or
\* `except Exception: break` ("break")
after_send(ok) == IF ok THEN "recv" ELSE "break"

\* lines 608-609: peer_ws.send(message) succeeds
Send(c) ==
    /\ pc[c] = "send"
    /\ after_send(send_ok(peer_ws[c])) = "recv"
    /\ inbox' = deliver(inbox, peer_ws[c], message[c])
    /\ pc' = [pc EXCEPT ![c] = "recv"]
    /\ message' = [message EXCEPT ![c] = NoMessage]
    /\ peer_ws' = [peer_ws EXCEPT ![c] = None]
    /\ UNCHANGED <<sessions, others, password, role, pending, chan, history_vars, cleanup_vars, env_vars, fixed_vars>>

\* lines 608-612, 619-623: peer_ws.send(message) raises; break, and the finally block
SendFails(c) ==
    /\ pc[c] = "send"
    /\ ~send_ok(peer_ws[c])
    /\ IF after_send(FALSE) = "break"
       THEN Teardown(c)
       ELSE /\ pc' = [pc EXCEPT ![c] = "recv"]
            /\ message' = [message EXCEPT ![c] = NoMessage]
            /\ peer_ws' = [peer_ws EXCEPT ![c] = None]
            /\ UNCHANGED <<sessions, others, password, role, chan>>
    /\ ended' = [ended EXCEPT ![c] = "send_failed"]
    /\ UNCHANGED <<pending, inbox, verdict, cleanup_vars, env_vars, fixed_vars>>

\* the remote end of a bound connection closes or loses its channel
PeerClose(c) ==
    /\ pc[c] \in {"add", "recv", "touch", "peer", "send"}
    /\ chan[c] = "open"
    /\ chan' = [chan EXCEPT ![c] = "peer_closed"]
    /\ UNCHANGED <<sessions, others, handler_vars, pending, inbox, history_vars, cleanup_vars, env_vars, fixed_vars>>

\* ------------------------------------------------------------ cleanup_loop
\* lines 90-97: current_time and the scan under the lock
CleanupScan ==
    /\ cpc = "scan"
    /\ now >= wake
    /\ current_time' = now
    /\ to_remove' = scan_inactive(sessions, now)
    /\ cpc' = "remove"
    /\ UNCHANGED <<sessions, others, handler_vars, channel_vars, history_vars, wake, env_vars, fixed_vars>>

\* lines 100-104, 117: the removal under the lock, then eventlet.sleep
CleanupRemove ==
    /\ cpc = "remove"
    /\ sessions' = remove_inactive(sessions, to_remove)
    /\ wake' = now + CLEANUP_INTERVAL
    /\ cpc' = "scan"
    /\ UNCHANGED <<others, handler_vars, channel_vars, history_vars, current_time, to_remove, env_vars, fixed_vars>>

\* ------------------------------------------------------------ time
Tick ==
    /\ now < MaxTicks * TickStep
    /\ now' = now + TickStep
    /\ UNCHANGED <<sessions, others, quota, handler_vars, channel_vars, history_vars, cleanup_vars, fixed_vars>>

\* ------------------------------------------------------------ specification
Next ==
    \/ \E c \in Conns : Bind(c)
    \/ \E c \in Conns : Reject(c)
    \/ \E c \in Conns : Receive(c)
    \/ \E c \in Conns : Disconnect(c)
    \/ \E c \in Conns : GetPeerWs(c)
    \/ \E c \in Conns : Send(c)
    \/ \E c \in Conns : SendFails(c)
    \/ \E c \in Conns : PeerClose(c)
    \/ CleanupScan
    \/ CleanupRemove
    \/ Tick

Spec == Init /\ [][Next]_vars

\* The same program from the state in which the handler of the first connection
\* has returned on a handshake that never came (a state Spec reaches by Reject),
\* with two more messages to relay: two connections talking both ways.
InitDuplex ==
    /\ sessions = [p \in {} |-> None]
    /\ now = 0
    /\ quota = MaxMsgs + 2
    /\ pc = [c \in Conns |-> IF c = 1 THEN "done" ELSE "start"]
    /\ password = [c \in Conns |-> NoneStr]
    /\ role = [c \in Conns |-> NoneStr]
    /\ message = [c \in Conns |-> NoMessage]
    /\ peer_ws = [c \in Conns |-> None]
    /\ pending = [c \in Conns |-> stream(c)]
    /\ inbox = [c \in Conns |-> <<>>]
    /\ chan = [c \in Conns |-> IF c = 1 THEN "closed" ELSE "open"]
    /\ verdict = [c \in Conns |-> IF c = 1 THEN "bad" ELSE "none"]
    /\ ended = [c \in Conns |-> ""]
    /\ cpc = "scan"
    /\ current_time = 0
    /\ to_remove = {}
    /\ wake = CLEANUP_INTERVAL
    /\ worker = [c \in Conns |-> 1]
    /\ others = [w \in 2..workers |-> new_process]
    /\ lock = None
    /\ handshake_data = [c \in Conns |-> Unread]

SpecDuplex == InitDuplex /\ [][Next]_vars

\* ------------------------------------------------------------ the lock
\* The same handler and reaper with session_manager.lock in the state: every
\* `with self.lock:` is two steps, the acquisition and the body with the
\* release, and every blocking call of the handler (ws.receive, peer_ws.send)
\* and of the reaper (eventlet.sleep) is a step of its own.

\* the tasks: the handler of each connection, and the cleanup greenlet
cleanup_greenlet == NumConns + 1
Tasks == Conns \cup {cleanup_greenlet}

\* t is at a `with self.lock:` (lines 52, 62, 76, 84, 93, 100)
at_lock(t) ==
    IF t = cleanup_greenlet
    THEN (cpc = "scan" /\ now >= wake) \/ cpc = "remove"
    ELSE pc[t] \in {"add", "touch", "peer", "unbind"}

\* (mutant of lock_exit: the lock is still held after the block)
lock_exit_held(t) == t

\* the lock when task t leaves its `with self.lock:` block
lock_exit(t) == None

\* Semaphore.acquire: t enters its `with self.lock:` block
lock_acquire(t) ==
    /\ lock = None
    /\ at_lock(t)
    /\ lock' = t
    /\ UNCHANGED <<sessions, others, handler_vars, channel_vars, history_vars, cleanup_vars, env_vars,
                   worker, handshake_data>>

\* where the handler goes from lines 580-590
after_handshake(r) ==
    IF r.exit = "bind" THEN "add"
    ELSE IF truthy(r.password) /\ truthy(r.role) THEN "unbind" ELSE "done"

\* lines 580-590: ws.receive(timeout=10) returns, and the handshake is read
handshake(c) ==
    /\ NextToConnect(c)
    /\ \E a \in Arrivals :
         /\ password' = [password EXCEPT ![c] = a.r.password]
         /\ role' = [role EXCEPT ![c] = a.r.role]
         /\ verdict' = [verdict EXCEPT ![c] = a.verdict]
         /\ pc' = [pc EXCEPT ![c] = after_handshake(a.r)]
         /\ chan' = [chan EXCEPT ![c] = IF after_handshake(a.r) = "done" THEN "closed" ELSE @]
    /\ UNCHANGED <<sessions, others, message, peer_ws, pending, inbox, ended, cleanup_vars, env_vars,
                   fixed_vars>>

\* lines 52-58: the body of add_connection
locked_add_connection(c) ==
    /\ lock = c /\ pc[c] = "add"
    /\ session_manager_set(c, add_connection(session_manager(c), password[c], role[c], c, now))
    /\ lock' = lock_exit(c)
    /\ pc' = [pc EXCEPT ![c] = "recv"]
    /\ UNCHANGED <<password, role, message, peer_ws, channel_vars, history_vars, cleanup_vars, env_vars,
                   worker, handshake_data>>

\* line 599: ws.receive() returns a message
receive(c) ==
    /\ pc[c] = "recv"
    /\ chan[c] = "open"
    /\ pending[c] # <<>>
    /\ quota > 0
    /\ quota' = quota - 1
    /\ message' = [message EXCEPT ![c] = next_message(pending[c])]
    /\ pending' = [pending EXCEPT ![c] = Tail(pending[c])]
    /\ pc' = [pc EXCEPT ![c] = "touch"]
    /\ UNCHANGED <<sessions, others, password, role, peer_ws, inbox, chan, history_vars, cleanup_vars,
                   now, fixed_vars>>

\* lines 599-602, 614-617: ws.receive() reports the end of the channel
receive_closed(c) ==
    /\ pc[c] = "recv"
    /\ chan[c] = "peer_closed"
    /\ pc' = [pc EXCEPT ![c] = "unbind"]
    /\ ended' = [ended EXCEPT ![c] = "closed"]
    /\ UNCHANGED <<sessions, others, password, role, message, peer_ws, channel_vars, verdict,
                   cleanup_vars, env_vars, fixed_vars>>

\* lines 84-86: the body of update_activity
locked_update_activity(c) ==
    /\ lock = c /\ pc[c] = "touch"
    /\ session_manager_set(c, update_activity(session_manager(c), password[c], now))
    /\ lock' = lock_exit(c)
    /\ pc' = [pc EXCEPT ![c] = "peer"]
    /\ UNCHANGED <<password, role, message, peer_ws, channel_vars, history_vars, cleanup_vars, env_vars,
                   worker, handshake_data>>

\* lines 76-80, 607: the body of get_peer_ws, and `if peer_ws:`
locked_get_peer_ws(c) ==
    LET w == get_peer_ws(session_manager(c), password[c], role[c])
    IN  /\ lock = c /\ pc[c] = "peer"
        /\ lock' = lock_exit(c)
        /\ peer_ws' = [peer_ws EXCEPT ![c] = w]
        /\ pc' = [pc EXCEPT ![c] = after_lookup(w)]
        /\ message' = [message EXCEPT ![c] = IF after_lookup(w) = "send" THEN @ ELSE NoMessage]
        /\ UNCHANGED <<sessions, others, password, role, channel_vars, history_vars, cleanup_vars,
                       env_vars, worker, handshake_data>>

\* lines 608-612: peer_ws.send(message) raises; break
send_raises(c) ==
    /\ pc[c] = "send"
    /\ after_send(send_ok(peer_ws[c])) = "break"
    /\ pc' = [pc EXCEPT ![c] = "unbind"]
    /\ ended' = [ended EXCEPT ![c] = "send_failed"]
    /\ message' = [message EXCEPT ![c] = NoMessage]
    /\ peer_ws' = [peer_ws EXCEPT ![c] = None]
    /\ UNCHANGED <<sessions, others, password, role, channel_vars, verdict, cleanup_vars, env_vars,
                   fixed_vars>>

\* lines 62-72: the body of remove_connection; the handler returns and the
\* server closes the channel
locked_remove_connection(c) ==
    /\ lock = c /\ pc[c] = "unbind"
    /\ session_manager_set(c, remove_connection(session_manager(c), password[c], role[c], now))
    /\ lock' = lock_exit(c)
    /\ pc' = [pc EXCEPT ![c] = "done"]
    /\ chan' = [chan EXCEPT ![c] = "closed"]
    /\ UNCHANGED <<password, role, message, peer_ws, pending, inbox, history_vars, cleanup_vars,
                   env_vars, worker, handshake_data>>

\* lines 93-97: the body of the scan
locked_scan ==
    /\ lock = cleanup_greenlet /\ cpc = "scan"
    /\ lock' = lock_exit(cleanup_greenlet)
    /\ current_time' = now
    /\ to_remove' = scan_inactive(sessions, now)
    /\ cpc' = "remove"
    /\ UNCHANGED <<sessions, others, handler_vars, channel_vars, history_vars, wake, env_vars,
                   worker, handshake_data>>

\* lines 100-104, 117: the body of the removal, then eventlet.sleep
locked_remove ==
    /\ lock = cleanup_greenlet /\ cpc = "remove"
    /\ lock' = lock_exit(cleanup_greenlet)
    /\ sessions' = remove_inactive(sessions, to_remove)
    /\ wake' = now + CLEANUP_INTERVAL
    /\ cpc' = "scan"
    /\ UNCHANGED <<others, handler_vars, channel_vars, history_vars, current_time, to_remove, env_vars,
                   worker, handshake_data>>

NextLock ==
    \/ \E t \in Tasks : lock_acquire(t)
    \/ \E c \in Conns : handshake(c)
    \/ \E c \in Conns : locked_add_connection(c)
    \/ \E c \in Conns : receive(c)
    \/ \E c \in Conns : receive_closed(c)
    \/ \E c \in Conns : locked_update_activity(c)
    \/ \E c \in Conns : locked_get_peer_ws(c)
    \/ \E c \in Conns : Send(c)
    \/ \E c \in Conns : send_raises(c)
    \/ \E c \in Conns : locked_remove_connection(c)
    \/ \E c \in Conns : PeerClose(c)
    \/ locked_scan
    \/ locked_remove
    \/ Tick

\* from the state of InitDuplex
SpecLock == InitDuplex /\ [][NextLock]_vars

\* ------------------------------------------------------------ two worker processes
\* cleanup_loop of worker process w, lines 90-97
CleanupScanAt(w) ==
    LET o == others[w]
    IN  /\ o.cpc = "scan"
        /\ now >= o.wake
        /\ others' = [others EXCEPT ![w] = [o EXCEPT !.current_time = now,
                                                      !.to_remove = scan_inactive(o.sessions, now),
                                                      !.cpc = "remove"]]
        /\ UNCHANGED <<sessions, handler_vars, channel_vars, history_vars, cleanup_vars, env_vars, fixed_vars>>

\* cleanup_loop of worker process w, lines 100-104, 117
CleanupRemoveAt(w) ==
    LET o == others[w]
    IN  /\ o.cpc = "remove"
        /\ others' = [others EXCEPT ![w] = [o EXCEPT !.sessions = remove_inactive(o.sessions, o.to_remove),
                                                      !.wake = now + CLEANUP_INTERVAL,
                                                      !.cpc = "scan"]]
        /\ UNCHANGED <<sessions, handler_vars, channel_vars, history_vars, cleanup_vars, env_vars, fixed_vars>>

\* The deployment of gunicorn_config.py: every connection is accepted by one of
\* the worker processes, whichever the kernel hands it to.  The first
\* connection's handler has returned on a handshake that never came.
InitWorkers ==
    /\ sessions = [p \in {} |-> None]
    /\ now = 0
    /\ quota = MaxMsgs
    /\ pc = [c \in Conns |-> IF c = 1 THEN "done" ELSE "start"]
    /\ password = [c \in Conns |-> NoneStr]
    /\ role = [c \in Conns |-> NoneStr]
    /\ message = [c \in Conns |-> NoMessage]
    /\ peer_ws = [c \in Conns |-> None]
    /\ pending = [c \in Conns |-> stream(c)]
    /\ inbox = [c \in Conns |-> <<>>]
    /\ chan = [c \in Conns |-> IF c = 1 THEN "closed" ELSE "open"]
    /\ verdict = [c \in Conns |-> IF c = 1 THEN "bad" ELSE "none"]
    /\ ended = [c \in Conns |-> ""]
    /\ cpc = "scan"
    /\ current_time = 0
    /\ to_remove = {}
    /\ wake = CLEANUP_INTERVAL
    /\ worker \in [Conns -> 1..workers]
    /\ others = [w \in 2..workers |-> new_process]
    /\ lock = None
    /\ handshake_data = [c \in Conns |-> Unread]

NextWorkers ==
    \/ Next
    \/ \E w \in 2..workers : CleanupScanAt(w)
    \/ \E w \in 2..workers : CleanupRemoveAt(w)

SpecWorkers == InitWorkers /\ [][NextWorkers]_vars

\* ------------------------------------------------------------ the reaper, for ever
\* the clock of a run long enough for a second sweep
Horizon == (MaxTicks + 1) * TickStep

TickLive ==
    /\ now < Horizon
    /\ now' = now + TickStep
    /\ UNCHANGED <<sessions, others, quota, handler_vars, channel_vars, history_vars, cleanup_vars, fixed_vars>>

\* (mutant of CleanupRaises: the exception ends cleanup_loop)
CleanupRaisesDies ==
    /\ (cpc = "scan" /\ now >= wake) \/ cpc = "remove"
    /\ now + CLEANUP_INTERVAL <= Horizon
    /\ cpc' = "dead"
    /\ UNCHANGED <<sessions, others, handler_vars, channel_vars, history_vars, current_time, to_remove,
                   wake, env_vars, fixed_vars>>

\* lines 112-117: cleanup_inactive_sessions raises, in its scan or in its
\* removal; cleanup_loop logs the exception and sleeps (a failure is taken
\* only where the run is long enough for the reaper to wake up after it)
CleanupRaises ==
    /\ (cpc = "scan" /\ now >= wake) \/ cpc = "remove"
    /\ now + CLEANUP_INTERVAL <= Horizon
    /\ cpc' = "scan"
    /\ wake' = now + CLEANUP_INTERVAL
    /\ UNCHANGED <<sessions, others, handler_vars, channel_vars, history_vars, current_time, to_remove,
                   env_vars, fixed_vars>>

NextLive ==
    \/ Next
    \/ TickLive
    \/ CleanupRaises

\* The reaper is a greenlet of its own: it is scheduled whenever it can run,
\* and its sleep ends (time passes).  Nothing is assumed of the handlers.
\* One worker process, from the state of InitWorkers in which it accepts
\* every connection.
InitLive == InitWorkers /\ worker = [c \in Conns |-> 1]

SpecLive ==
    /\ InitLive /\ [][NextLive]_vars
    /\ WF_cleanup_vars(CleanupScan) /\ WF_cleanup_vars(CleanupRemove) /\ WF_now(TickLive)

\* ------------------------------------------------------------ handshakes on record
\* lines 580-593 (and 619-623 when the handshake is refused), keeping what
\* ws.receive(timeout=10) returned: Bind or Reject of connection c on handshake h
Accept(c, h) ==
    LET r == parse_handshake(h)
    IN  /\ NextToConnect(c)
        /\ handshake_data' = [handshake_data EXCEPT ![c] = h]
        /\ verdict' = [verdict EXCEPT ![c] = Verdict(h)]
        /\ IF r.exit = "bind"
           THEN /\ password' = [password EXCEPT ![c] = r.password]
                /\ role' = [role EXCEPT ![c] = r.role]
                /\ session_manager_set(c, add_connection(session_manager(c), r.password, r.role, c, now))
                /\ pc' = [pc EXCEPT ![c] = "recv"]
                /\ chan' = chan
           ELSE /\ session_manager_set(c, finally_registry(session_manager(c), r.password, r.role, now))
                /\ pc' = [pc EXCEPT ![c] = "done"]
                /\ chan' = [chan EXCEPT ![c] = "closed"]
                /\ UNCHANGED <<password, role>>
        /\ UNCHANGED <<message, peer_ws, pending, inbox, ended, cleanup_vars, env_vars, worker, lock>>

NextHandshake == \E c \in Conns : \E h \in Handshakes : Accept(c, h)

\* every sequence of handshakes, one per connection
SpecHandshake == Init /\ [][NextHandshake]_vars

TypeOK ==
    /\ \A p \in DOMAIN sessions : {"client_ws", "helper_ws", "last_activity"} \subseteq DOMAIN sessions[p]
    /\ \A c \in Conns : pc[c] \in {"start", "add", "recv", "touch", "peer", "send", "unbind", "done"}
    /\ lock \in {None} \cup Tasks

\* ================================================================ properties
Roles == {"client", "helper"}
Opposite(r) == CHOOSE q \in Roles : q # r

\* the connection in role slot r of session p; None when there is no such session or slot
Occupant(S, p, r) == IF p \in DOMAIN S /\ ws_key(r) \in DOMAIN S[p] THEN S[p][ws_key(r)] ELSE None

\* c has completed add_connection (its locals keep what it was bound as)
HasBound(c) == password[c] # NoneStr

\* steps of the relay loop of c, told by where the handler is before and after
LookupStep(c) == pc[c] = "peer" /\ pc'[c] # "peer"
SendStep(c) == pc[c] = "send" /\ pc'[c] # "send"
BindStep(c) == pc[c] = "start" /\ pc'[c] = "recv"
EndStep(c) == pc[c] \in {"recv", "send"} /\ pc'[c] = "done"

\* the k-th message the remote end of c sent
Sent(c, k) == stream(c)[k]
NumReceived(c) == MaxMsgs - Len(pending[c])

\* ---------------------------------------------------------------- C1
\* C1 as stated: whenever the relay sends on a message of c for which it
\* found the slot opposite to c in c's session occupied, exactly that occupant
\* receives the message.
C1_AsStated ==
    [][\A c \in Conns :
         SendStep(c) => inbox' = [inbox EXCEPT ![peer_ws[c]] = Append(@, message[c])]]_vars

C1_Lookup(c) ==
    LET w == Occupant(sessions, password[c], Opposite(role[c]))
    IN  /\ peer_ws'[c] = w
        /\ w # None => pc'[c] = "send" /\ message'[c] = message[c]
        /\ w = None => pc'[c] = "recv"

C1_Send(c) ==
    IF chan[peer_ws[c]] = "open"
    THEN inbox' = [inbox EXCEPT ![peer_ws[c]] = Append(@, message[c])]
    ELSE inbox' = inbox

C1_Isolation ==
    \A d \in Conns : \A i \in DOMAIN inbox[d] :
        LET m == inbox[d][i]
            s == m[1]
        IN  /\ s # d
            /\ m = Sent(s, m[2])
            /\ password[s] = password[d]
            /\ role[s] = Opposite(role[d])
            /\ \A j \in DOMAIN inbox[d] : j # i => inbox[d][j] # m
            /\ \A e \in Conns \ {d} : \A j \in DOMAIN inbox[e] : inbox[e][j] # m

C1_InFlight ==
    \A c \in Conns : pc[c] \in {"peer", "send"} => message[c] = Sent(c, NumReceived(c))

\* C1 (amended): the message the relay loop received from c, bound as role R
\* in session T, goes to the connection that the lookup made for this message
\* found in the opposite slot of T, unchanged and once, if the send to it does
\* not fail, and to nobody otherwise; no connection ever holds a message of
\* itself, of a connection of another session or of its own role.
C1_Relay ==
    /\ [](C1_Isolation /\ C1_InFlight)
    /\ [][/\ \A c \in Conns : LookupStep(c) => C1_Lookup(c)
          /\ \A c \in Conns : SendStep(c) => C1_Send(c)
          /\ inbox' # inbox => \E c \in Conns : SendStep(c)]_vars

\* a message was relayed while a connection of another session was listening
C1_Witness ==
    \E d, e \in Conns :
        /\ inbox[d] # <<>>
        /\ pc[e] = "recv" /\ chan[e] = "open"
        /\ HasBound(e) /\ password[e] # password[d]

\* ---------------------------------------------------------------- C2
\* C2: what a connection has been sent holds the messages of each sender in
\* the order that sender sent them.
C2_InOrder ==
    \A d \in Conns : \A i, j \in DOMAIN inbox[d] :
        (i < j /\ inbox[d][i][1] = inbox[d][j][1]) => inbox[d][i][2] < inbox[d][j][2]

\* two messages of one sender have reached its peer, and a message of the
\* peer has reached the sender
C2_Witness ==
    \E d \in Conns : \E i, j \in DOMAIN inbox[d] :
        /\ i < j /\ inbox[d][i][1] = inbox[d][j][1]
        /\ inbox[inbox[d][i][1]] # <<>>

\* ---------------------------------------------------------------- C3
\* C3: every session in the registry has a connection in its client slot or
\* in its helper slot.
C3_NoEmptySession ==
    \A p \in DOMAIN sessions :
        Occupant(sessions, p, "client") # None \/ Occupant(sessions, p, "helper") # None

\* a client and a helper of one session have both disconnected, the reaper
\* has not swept since, and the token is gone
C3_Witness ==
    \E c, d \in Conns :
        /\ ended[c] = "closed" /\ ended[d] = "closed"
        /\ password[c] = password[d]
        /\ role[c] = "client" /\ role[d] = "helper"
        /\ wake = CLEANUP_INTERVAL
        /\ password[c] \notin DOMAIN sessions

\* ---------------------------------------------------------------- C4
\* C4 as stated: when a bind puts a connection into a slot held by another
\* connection, the broker has closed that other connection's channel by the
\* time the new one is the occupant.
C4_ReplaceCloses ==
    [][\A c \in Conns :
         BindStep(c) =>
           LET d == Occupant(sessions, password'[c], role'[c])
           IN  (d # None /\ d # c) => chan'[d] = "closed"]_vars

\* ---------------------------------------------------------------- C5
SendFailure(c) == SendStep(c) /\ chan[peer_ws[c]] # "open"

SlotKeys(d) == DOMAIN d \ {"last_activity", "active"}

\* C6: a connection whose handshake was bad (none in time, malformed, a field
\* absent or blank, an unknown role) has been sent nothing, is in no slot of
\* any session, and its handler has returned, which closes its channel:
\* what it observes is the same whatever the flaw and whatever the registry.
C6_SilentReject ==
    \A c \in Conns :
        verdict[c] = "bad" =>
            /\ inbox[c] = <<>>
            /\ pc[c] = "done" /\ chan[c] = "closed"
            /\ \A p \in DOMAIN sessions : \A k \in SlotKeys(sessions[p]) : sessions[p][k] # c

\* a handshake naming an existing session and an unknown role has been refused
C6_Witness ==
    \E c \in Conns :
        /\ verdict[c] = "bad"
        /\ \E p \in DOMAIN sessions : "admin_ws" \in DOMAIN sessions[p]

\* ---------------------------------------------------------------- C7
ScanStep == cpc = "scan" /\ cpc' = "remove"
RemoveStep == cpc = "remove" /\ cpc' = "scan"

\* C7: the scan of a sweep marks exactly the sessions whose last_activity is
\* older than the sweep's time minus the timeout, whatever their slots hold,
\* and the removal deletes every marked session and no other one.
C7_Sweep ==
    [][/\ ScanStep =>
            /\ to_remove' = {p \in DOMAIN sessions :
                               sessions[p].last_activity < current_time' - INACTIVE_TIMEOUT}
            /\ current_time' = now
            /\ sessions' = sessions
       /\ RemoveStep =>
            /\ \A p \in to_remove : p \notin DOMAIN sessions'
            /\ \A p \in DOMAIN sessions \ to_remove :
                   p \in DOMAIN sessions' /\ sessions'[p] = sessions[p]
            /\ DOMAIN sessions' \subseteq DOMAIN sessions]_vars

\* a sweep has evicted a session whose connection is still in its relay loop
\* (no handler has ended, so the slot was occupied) and has kept a fresh one
C7_Witness ==
    /\ cpc = "scan" /\ wake > now
    /\ \A d \in Conns : pc[d] # "done"
    /\ \E c \in Conns : pc[c] = "recv" /\ password[c] \in to_remove /\ password[c] \notin DOMAIN sessions
    /\ DOMAIN sessions # {}

\* ---------------------------------------------------------------- C8
Tokens == {strip(s) : s \in RawPasswords} \cup {"other"}

\* C8: right after add_connection(token, role, c), get_peer_ws asked from the
\* opposite role returns c; get_peer_ws returns None when the session does
\* not exist or the opposite slot is empty.
C8_BindThenPeer ==
    /\ [][\A c \in Conns :
            BindStep(c) => get_peer_ws(sessions', password'[c], Opposite(role'[c])) = c]_vars
    /\ [](\A p \in Tokens : \A r \in Roles :
            Occupant(sessions, p, Opposite(r)) = None => get_peer_ws(sessions, p, r) = None)

\* a connection has just taken over a slot that another connection had bound
C8_Witness ==
    \E c, d \in Conns :
        /\ c # d /\ HasBound(d) /\ password[d] = password[c] /\ role[d] = role[c]
        /\ pc[c] = "recv" /\ pc[d] = "recv" /\ NumReceived(c) = 0
        /\ get_peer_ws(sessions, password[c], Opposite(role[c])) = c

\* ---------------------------------------------------------------- C9
\* c is in its slot and the opposite slot of its session is empty
Lone(S, c) ==
    /\ Occupant(S, password[c], role[c]) = c
    /\ Occupant(S, password[c], Opposite(role[c])) = None

ReceiveStep(c) == pc[c] = "recv" /\ pc'[c] = "peer"

\* C9: a message of a connection that is alone in its session is delivered to
\* nobody, ends nothing, and leaves the session with the sender's slot alone
\* occupied.
C9_LoneSender ==
    [][\A c \in Conns :
         /\ (ReceiveStep(c) /\ Lone(sessions, c)) =>
                Lone(sessions', c) /\ inbox' = inbox /\ chan' = chan
         /\ (LookupStep(c) /\ Lone(sessions, c)) =>
                /\ pc'[c] = "recv"
                /\ inbox' = inbox /\ chan' = chan
                /\ sessions' = sessions]_vars

\* the only connection there is has sent a message and is back in its loop
C9_Witness ==
    \E c \in Conns :
        /\ pc[c] = "recv" /\ NumReceived(c) > 0 /\ Lone(sessions, c)
        /\ \A d \in Conns \ {c} : pc[d] = "start"
        /\ \A d \in Conns : inbox[d] = <<>>

\* ---------------------------------------------------------------- C10
\* C10 as stated: the unbind of a connection whose role slot is already empty,
\* or whose session is already gone, leaves the registry as it is.
C10_UnbindNoOp ==
    [][\A c \in Conns :
         (EndStep(c) /\ Occupant(sessions, password[c], role[c]) = None) =>
             sessions' = sessions]_vars

\* ---------------------------------------------------------------- C11
\* c and d are the client and the helper of one token: both have bound, d is
\* in its relay loop, no other connection has presented the token, and no
\* time has passed (no sweep can have evicted anything)
Paired(c, d) ==
    /\ HasBound(c) /\ HasBound(d)
    /\ password[d] = password[c] /\ role[d] = Opposite(role[c])
    /\ pc[d] \in {"recv", "peer", "send"}
    /\ \A e \in Conns \ {c, d} : password[e] # password[c]
    /\ now = 0

\* C11 as stated: the client and the helper of one token are paired whichever
\* worker process accepted each: the lookup made for a message of one finds
\* the other.
C11_PairedAcrossWorkers ==
    [][\A c, d \in Conns : (LookupStep(c) /\ Paired(c, d)) => peer_ws'[c] = d]_vars

\* ---------------------------------------------------------------- C12
\* C12 as stated: the unbind made when the handler of c ends clears the role
\* slot only if the slot holds c: a connection that superseded c in the slot
\* stays in it (and its session stays in the registry).
C12_UnbindOnlyOwn ==
    [][\A c \in Conns :
         EndStep(c) =>
           LET d == Occupant(sessions, password[c], role[c])
           IN  (d # None /\ d # c) => Occupant(sessions', password[c], role[c]) = d]_vars

\* ---------------------------------------------------------------- C13
\* C13 as stated: when the removal of a sweep deletes a session, the broker
\* closes the channel of every connection that occupies a slot of it.
C13_EvictionCloses ==
    [][RemoveStep =>
         \A p \in to_remove \cap DOMAIN sessions : \A r \in Roles :
             LET c == Occupant(sessions, p, r)
             IN  c # None => chan'[c] = "closed"]_vars

\* ---------------------------------------------------------------- C14
\* C14 as stated: every session the removal of a sweep deletes is, when it is
\* deleted, older than the timeout (a session refreshed or re-created since
\* the scan is kept).
C14_StaleWhenDeleted ==
    [][RemoveStep =>
         \A p \in DOMAIN sessions \ DOMAIN sessions' :
             now - sessions[p].last_activity > INACTIVE_TIMEOUT]_vars

\* ---------------------------------------------------------------- C15
\* C15 as stated: a message of a connection that is not the occupant of its
\* role slot (superseded, or its session evicted) is forwarded to nobody.
C15_OnlyOccupantRelays ==
    [][\A c \in Conns :
         (SendStep(c) /\ Occupant(sessions, password[c], role[c]) # c) => inbox' = inbox]_vars

\* ---------------------------------------------------------------- C16
RejectStep(c) == pc[c] = "start" /\ pc'[c] = "done"

\* C16 as stated: a handshake that is refused leaves the registry as it is.
C16_RejectKeepsRegistry ==
    [][\A c \in Conns : RejectStep(c) => sessions' = sessions]_vars

\* ---------------------------------------------------------------- C17
\* a step of the relay loop of c that does not end it
LoopStep(c) == pc[c] \in {"recv", "peer", "send"} /\ pc'[c] \in {"recv", "peer", "send"} /\ pc'[c] # pc[c]

\* C17: the handler of a bound connection unbinds when it ends, whatever ends
\* it (the end of its channel, a failed send), and only then: no step of its
\* relay loop clears a slot, and an ended handler takes no further step.  Its
\* end leaves every connection of another session where it is: handler,
\* channel and registry entry.
C17_UnbindOnce ==
    [][\A c \in Conns :
         /\ EndStep(c) =>
              /\ sessions' = remove_connection(sessions, password[c], role[c], now)
              /\ \A d \in Conns :
                    (HasBound(d) /\ password[d] # password[c]) =>
                        /\ pc'[d] = pc[d] /\ chan'[d] = chan[d]
                        /\ Occupant(sessions', password[d], role[d]) = Occupant(sessions, password[d], role[d])
         /\ LoopStep(c) =>
              \A p \in DOMAIN sessions : \A r \in Roles :
                  Occupant(sessions', p, r) = Occupant(sessions, p, r)
         /\ pc[c] = "done" =>
              /\ pc'[c] = "done" /\ chan'[c] = chan[c]
              /\ password'[c] = password[c] /\ role'[c] = role[c]]_vars

\* one handler has ended on a failed send and one on the end of its channel,
\* while a connection of another session is bound and in its relay loop
C17_Witness ==
    \E c, d, e \in Conns :
        /\ ended[c] = "send_failed" /\ pc[c] = "done"
        /\ ended[d] = "closed" /\ pc[d] = "done"
        /\ HasBound(e) /\ password[e] # password[c] /\ password[e] # password[d]
        /\ pc[e] = "recv" /\ chan[e] = "open"
        /\ Occupant(sessions, password[e], role[e]) = e

\* ---------------------------------------------------------------- C18
\* C18: the registry lock is never held by a handler that is in ws.receive
\* or peer_ws.send, nor by the reaper while it sleeps: the step a task takes
\* after acquiring the lock is the body of its registry call, which needs
\* nothing from any channel and releases the lock.
C18_LockNotAcrossIO ==
    /\ [](\A t \in Tasks : lock = t => at_lock(t))
    /\ [](\A c \in Conns :
             lock = c => ENABLED (\/ locked_add_connection(c) \/ locked_update_activity(c)
                                  \/ locked_get_peer_ws(c) \/ locked_remove_connection(c)))
    /\ [](lock = cleanup_greenlet => ENABLED (locked_scan \/ locked_remove))
    /\ [][\A c \in Conns : (lock = c /\ pc'[c] # pc[c]) => lock' = None]_vars
    /\ [][(lock = cleanup_greenlet /\ cpc' # cpc) => lock' = None]_vars

\* a handler holds the lock while another handler is in peer_ws.send to a
\* channel that has closed, and the holder's own remote end is gone
C18_Witness ==
    \E c, d \in Conns :
        /\ c # d /\ lock = c /\ pc[c] = "unbind"
        /\ pc[d] = "send" /\ peer_ws[d] = c

\* ---------------------------------------------------------------- C19
\* the session of token p is older than the timeout
Stale(p) == p \in DOMAIN sessions /\ now - sessions[p].last_activity > INACTIVE_TIMEOUT

\* the reaper has a sweep to start within the run
SweepAhead == cpc = "scan" /\ wake <= Horizon

BindTokens == {a.r.password : a \in {b \in Arrivals : b.r.exit = "bind"}}

\* C19: a session that is older than the timeout while the reaper has a sweep
\* to come is removed from the registry (unless it is refreshed first),
\* whether or not its connections ever report a close and whether or not
\* sweeps before that one raised; whatever a sweep did, the reaper is never
\* further than one interval from its next sweep.
C19_EventuallySwept ==
    /\ \A p \in BindTokens : (Stale(p) /\ SweepAhead) ~> ~Stale(p)
    /\ [](cpc \in {"scan", "remove"} /\ wake <= now + CLEANUP_INTERVAL)

\* the reaper woke up one clock advance ago and yet a session as old as the
\* run is still there (that sweep raised), its connection waits in its relay
\* loop with its channel open, and the reaper's next sweep is due
C19_Witness ==
    /\ now = Horizon /\ SweepAhead
    /\ wake = TickStep + CLEANUP_INTERVAL
    /\ \E c \in Conns :
          /\ pc[c] = "recv" /\ chan[c] = "open"
          /\ Stale(password[c]) /\ sessions[password[c]].last_activity = 0

\* ---------------------------------------------------------------- C20
\* the token connection c presented, as it was in its handshake
Presented(c) == handshake_data[c].password.v

\* C20 as stated: two connections bound on valid handshakes are in the same
\* session exactly if the tokens they presented are the same string,
\* character for character.
C20_ByteSensitive ==
    \A c, d \in Conns :
        (pc[c] = "recv" /\ pc[d] = "recv") =>
            (password[c] = password[d] <=> Presented(c) = Presented(d))

\* ---------------------------------------------------------------- C21
\* C21: a token enters the registry only in the step in which a handler binds
\* under it: no receive (update_activity), lookup (get_peer_ws), handler end
\* or refusal (remove_connection) and no step of the sweep adds a token.
C21_OnlyBindCreates ==
    [][\A p \in DOMAIN sessions' \ DOMAIN sessions :
         \E c \in Conns : BindStep(c) /\ password'[c] = p]_vars

\* the first message of c reached its peer h; its second message did not,
\* although h is still bound and listening and no third connection exists:
\* the sweep evicted their session in between, the lookup for the second
\* message was made on the evicted token, and the token is still gone
C21_Witness ==
    \E c, h \in Conns :
        /\ HasBound(c) /\ HasBound(h)
        /\ password[h] = password[c] /\ role[h] = Opposite(role[c])
        /\ pc[c] = "recv" /\ NumReceived(c) = 2
        /\ pc[h] = "recv" /\ chan[h] = "open" /\ inbox[h] = <<Sent(c, 1)>>
        /\ \A e \in Conns \ {c, h} : pc[e] = "start"
        /\ password[c] \notin DOMAIN sessions

====
